---- MODULE Spec2Model ----
(***************************************************************************)
(* Cycle-accurate model of lambdasoc.periph.sdram.WritebackCache together  *)
(* with the environment of its formal harness (WishboneSubordinateSpec on  *)
(* the initiator bus, WritebackCacheSpec on the DRAM native port).         *)
(* The module also holds the burst address generator, the constructor's    *)
(* validation, SRAMPeripheral and InterruptController, each with its own   *)
(* specification.                                                          *)
(* One step of the cache model is one clock cycle.  The variable intr_bus holds  *)
(* the initiator's inputs of the current cycle; every combinational signal *)
(* of the cache is an operator over the current state; the DRAM port's     *)
(* ready/valid inputs are drawn in the step.                               *)
(***************************************************************************)
EXTENDS Integers, Naturals, FiniteSets, Sequences, TLC

VARIABLES
    cfg,          \* construction parameters (ratio, nb_lines, nsel, dirty_init)
    fsm,          \* FSM state: "CHECK", "EVICT", "REFILL"
    intr_bus,     \* initiator inputs of the current cycle
    intr_bus_r,   \* registered cyc/stb/adr
    tag_mem,      \* line -> [tag, dirty]
    dat_mem,      \* line -> line data (offset -> word, word = byte index -> byte)
    tag_rp_data,  \* registered output of the tag read port
    dat_rp_data,  \* registered output of the data read port
    evict_done,   \* [cmd, w]
    refill_done,  \* [cmd, r]
    dram,         \* backing store: DRAM address -> line data
    dram_done,    \* harness: [cmd, r, w] handshakes seen of the pending operation
    dram_cmd,     \* harness: [addr, we] of the last accepted command
    dram_data_w,  \* harness: data of the last write-stream handshake
    spec_mem,     \* reference memory: bus address -> word (acknowledged writes)
    dram0,        \* the byte the backing store was filled with at power-up
    txn,          \* history of the miss being served: [open, dirty, addr, evicts, refills]
    past_active,  \* Past(cyc & stb)
    held,         \* cycles the presented beat has already waited (capped at 2)
    nwrites,      \* number of bus writes acknowledged so far
    cold,         \* no bus request has been acknowledged since reset
    missed,       \* history: the lines on which a miss has been taken since reset
    burst,        \* burst address generator: [start, bte, adr, beats, seen]
    ctor,         \* WritebackCache.__init__: [args, result]
    sram,         \* SRAMPeripheral, its memory and the initiator of its test
    intc          \* InterruptController: [irq_lines, irq_map, added, call, result]

cache_vars == <<cfg, fsm, intr_bus, intr_bus_r, tag_mem, dat_mem, tag_rp_data,
                dat_rp_data, evict_done, refill_done, dram, dram_done, dram_cmd,
                dram_data_w, spec_mem, dram0, txn, past_active, held, nwrites, cold,
                missed>>

vars == <<cfg, fsm, intr_bus, intr_bus_r, tag_mem, dat_mem, tag_rp_data,
          dat_rp_data, evict_done, refill_done, dram, dram_done, dram_cmd,
          dram_data_w, spec_mem, dram0, txn, past_active, held, nwrites, cold,
          missed, burst, ctor, sram, intc>>

----------------------------------------------------------------------------
(* Bounds of the model *)

\* the initiator presents no further write once MaxWrites writes were acknowledged
MaxWrites == 1

\* wishbone.CycleType
CLASSIC == "CLASSIC"
INCR_BURST == "INCR_BURST"
END_OF_BURST == "END_OF_BURST"
\* wishbone.BurstTypeExt
LINEAR == "LINEAR"
WRAP_4 == "WRAP_4"
WRAP_8 == "WRAP_8"
WRAP_16 == "WRAP_16"

\* The cache and the harness only test cti against INCR_BURST: END_OF_BURST
\* beats behave as CLASSIC beats and are not enumerated separately.
CycleTypes == {CLASSIC, INCR_BURST}
BurstTypes == {LINEAR, WRAP_4}

\* Accepted configurations: ratio = dram_port.data_width // data_width,
\* nb_lines = size * granularity // dram_port.data_width,
\* nsel = data_width // granularity, tags = 2 ** (width of the tag field).
Shapes ==
    { [ratio |-> 1, nb_lines |-> 1, nsel |-> 2, tags |-> 2],
      [ratio |-> 1, nb_lines |-> 1, nsel |-> 1, tags |-> 2],
      [ratio |-> 2, nb_lines |-> 1, nsel |-> 1, tags |-> 2],
      [ratio |-> 1, nb_lines |-> 2, nsel |-> 1, tags |-> 2] }

Configs ==
    { [ratio |-> s.ratio, nb_lines |-> s.nb_lines, nsel |-> s.nsel, tags |-> s.tags,
       dirty_init |-> d] :
        s \in Shapes, d \in BOOLEAN }

----------------------------------------------------------------------------
(* Address decomposition and burst address generation *)

Tags == 0..(cfg.tags - 1)
\* The cache moves data without inspecting it: one bit per byte tells a byte
\* that was written from one that was not.
Bytes == {0, 1}
Lines == 0..(cfg.nb_lines - 1)
Offsets == 0..(cfg.ratio - 1)
Sels == 0..(cfg.nsel - 1)
AdrCount == cfg.ratio * cfg.nb_lines * cfg.tags
Adrs == 0..(AdrCount - 1)
DramAdrs == 0..(cfg.nb_lines * cfg.tags - 1)

Offset(a) == a % cfg.ratio
Line(a) == (a \div cfg.ratio) % cfg.nb_lines
Tag(a) == a \div (cfg.ratio * cfg.nb_lines)

\* Cat(line, tag)
Cat(line, tag) == line + cfg.nb_lines * tag

WrapSize(bte) ==
    CASE bte = WRAP_4 -> 4
      [] bte = WRAP_8 -> 8
      [] bte = WRAP_16 -> 16

\* mutant: every burst type increments the full address
AdrNextLinear(a, bte) == (a + 1) % AdrCount

\* intr_adr_next
AdrNext(a, bte) ==
    IF bte = LINEAR
    THEN (a + 1) % AdrCount
    ELSE (((a \div WrapSize(bte)) * WrapSize(bte)) + ((a + 1) % WrapSize(bte))) % AdrCount

Words == [Sels -> Bytes]
LineData == [Offsets -> Words]
ZeroWord == [i \in Sels |-> 0]
ConstLine(v) == [o \in Offsets |-> [i \in Sels |-> v]]

----------------------------------------------------------------------------
(* Combinational signals of the cache *)

intr_adr == intr_bus.adr
intr_adr_r == intr_bus_r.adr

Active == intr_bus.cyc /\ intr_bus.stb
ActiveR == intr_bus_r.cyc /\ intr_bus_r.stb

\* mutant: the tag of the registered address is compared
TagMatchRegistered == Tag(intr_adr_r) = tag_rp_data.tag

TagMatch == Tag(intr_adr) = tag_rp_data.tag

\* mutant: ack without waiting for the registered request
AckUnregistered == fsm = "CHECK" /\ Active /\ TagMatch

\* mutant: ack not gated by the bus's cyc and stb
AckUngated == fsm = "CHECK" /\ TagMatch /\ ActiveR

\* intr_bus.ack
Ack == fsm = "CHECK" /\ Active /\ TagMatch /\ ActiveR

\* mutant: a miss is taken without a registered request
MissUnregistered == fsm = "CHECK" /\ Active /\ ~TagMatch

\* the miss branch of CHECK
Miss == fsm = "CHECK" /\ Active /\ ~TagMatch /\ ActiveR

\* intr_bus.dat_r
DatR == dat_rp_data[Offset(intr_adr)]

\* mutant: the read ports are enabled only in an ack cycle
RpEnAckOnly == Ack

\* tag_rp.en / dat_rp.en
RpEn == fsm = "CHECK" /\ Active /\ (~intr_bus_r.cyc \/ ~intr_bus_r.stb \/ Ack)

\* mutant: the read ports always address the current line
RpAddrCurrent == Line(intr_adr)

\* tag_rp.addr / dat_rp.addr
RpAddr ==
    IF Ack /\ intr_bus.cti = INCR_BURST
    THEN Line(AdrNext(intr_adr, intr_bus.bte))
    ELSE Line(intr_adr)

\* mutant: the write ports are enabled by every ack
WpEnAck == Ack

\* tag_wp.en in CHECK
WpEnCheck == Ack /\ intr_bus.we

\* mutant: a bus write replaces the whole word
MergeWordAll(old, new, sel) == new

\* the word written by a bus write: bytes selected by sel are replaced
MergeWord(old, new, sel) == [i \in Sels |-> IF i \in sel THEN new[i] ELSE old[i]]

\* mutant: cmd.valid is not dropped once the command was accepted
CmdValidSticky == fsm \in {"EVICT", "REFILL"}

\* dram_port.cmd.valid
CmdValid ==
    CASE fsm = "EVICT" -> ~evict_done.cmd
      [] fsm = "REFILL" -> ~refill_done.cmd
      [] OTHER -> FALSE

\* mutant: the refill command is issued as a write
CmdWeAlways == fsm # "CHECK"

\* dram_port.cmd.we
CmdWe == fsm = "EVICT"

\* dram_port.cmd.last
CmdLast == fsm = "REFILL"

\* dram_port.cmd.addr
CmdAddr ==
    CASE fsm = "EVICT" -> Cat(Line(intr_adr_r), tag_rp_data.tag)
      [] fsm = "REFILL" -> Cat(Line(intr_adr_r), Tag(intr_adr_r))
      [] OTHER -> 0

\* dram_port.w.valid
WValid == fsm = "EVICT" /\ ~evict_done.w

\* dram_port.w.data
WData == dat_rp_data

\* dram_port.w.we: the byte lanes of the line that the write updates
WWe == [o \in Offsets |-> Sels]

\* mutant: r.ready is driven in every state
RReadyUngated == ~refill_done.r

\* dram_port.r.ready
RReady == fsm = "REFILL" /\ ~refill_done.r

----------------------------------------------------------------------------
(* Environment: the initiator *)

\* Inputs of a cycle without cyc & stb: the other inputs are don't-care, kept at 0
IdleInputs ==
    { [cyc |-> c, stb |-> FALSE, adr |-> 0, we |-> FALSE, sel |-> {}, dat_w |-> ZeroWord,
       cti |-> CLASSIC, bte |-> LINEAR] :
        c \in BOOLEAN }

\* write data: bytes outside sel are don't-care and kept at 0
WriteData(sel) == { w \in Words : \A i \in Sels : i \notin sel => w[i] = 0 }

CtiBte == { <<c, b>> \in CycleTypes \X BurstTypes : c # INCR_BURST => b = LINEAR }

ReadInputs ==
    { [cyc |-> TRUE, stb |-> TRUE, adr |-> a, we |-> FALSE, sel |-> {}, dat_w |-> ZeroWord,
       cti |-> cb[1], bte |-> cb[2]] :
        a \in Adrs, cb \in CtiBte }

WriteInputs ==
    UNION { { [cyc |-> TRUE, stb |-> TRUE, adr |-> a, we |-> TRUE, sel |-> s, dat_w |-> w,
               cti |-> cb[1], bte |-> cb[2]] :
                a \in Adrs, w \in WriteData(s), cb \in CtiBte } :
            s \in SUBSET Sels }

BusInputs == IdleInputs \cup ReadInputs \cup WriteInputs

\* Writes the initiator may get acknowledged: one more on the smallest shape,
\* where two writes to the same line under different tags fit.
WriteBudget ==
    IF cfg.ratio = 1 /\ cfg.nb_lines = 1 /\ cfg.nsel = 1 /\ ~cfg.dirty_init
    THEN MaxWrites + 1
    ELSE MaxWrites

\* WishboneSubordinateSpec: the inputs the initiator may present in the next cycle.
\* A request is held, cyc and stb included, until it is acknowledged.
NextInputs ==
    { n \in BusInputs :
        /\ n.we => (n = intr_bus \/ nwrites + (IF Ack /\ intr_bus.we THEN 1 ELSE 0) < WriteBudget)
        /\ IF Active
           THEN IF ~Ack
                THEN n = intr_bus
                ELSE IF intr_bus.cti = INCR_BURST
                     THEN (n.cyc /\ n.stb) => n.adr = AdrNext(intr_adr, intr_bus.bte)
                     ELSE ~n.cyc
           ELSE TRUE }

----------------------------------------------------------------------------
(* Environment: the backing store behind the DRAM native port *)

\* WritebackCacheSpec's bookkeeping of the DRAM streams
DramDoneNext(cmd_hs, w_hs, r_hs) ==
    LET set == [cmd |-> dram_done.cmd \/ cmd_hs,
                r   |-> dram_done.r \/ r_hs,
                w   |-> dram_done.w \/ w_hs]
        rd  == dram_done.cmd /\ dram_done.r
        wr  == dram_done.cmd /\ dram_done.w
    IN  [cmd |-> set.cmd /\ ~rd /\ ~wr,
         r   |-> set.r /\ ~rd,
         w   |-> set.w /\ ~wr]

\* A write operation takes effect once its command and its data have been taken
DramNext ==
    IF dram_done.cmd /\ dram_done.w /\ dram_cmd.we
    THEN [dram EXCEPT ![dram_cmd.addr] =
              [o \in Offsets |-> MergeWord(@[o], dram_data_w[o], WWe[o])]]
    ELSE dram

\* The reference memory follows the acknowledged bus writes
SpecMemNext ==
    IF Ack /\ intr_bus.we
    THEN [spec_mem EXCEPT ![intr_adr] = MergeWord(@, intr_bus.dat_w, intr_bus.sel)]
    ELSE spec_mem

----------------------------------------------------------------------------
(* Initial state *)

\* no miss is being served
NoTxn == [open |-> FALSE, dirty |-> FALSE, addr |-> 0, evicts |-> 0, refills |-> 0]

TagInit == IF cfg.dirty_init THEN [tag |-> cfg.tags - 1, dirty |-> TRUE]
                             ELSE [tag |-> 0, dirty |-> FALSE]

\* the other components are not instantiated
NoBurst == [start |-> 0, bte |-> LINEAR, adr |-> 0, beats |-> 0, seen |-> {}]
NoCtor == [args |-> <<>>, result |-> "none"]
NoSram == [on |-> FALSE]
NoIntc == [irq_lines |-> {}, irq_map |-> <<>>, added |-> {}, call |-> <<>>, result |-> "none"]

Others == burst = NoBurst /\ ctor = NoCtor /\ sram = NoSram /\ intc = NoIntc

\* value of the history of misses in the specifications that do not keep it
NotTracked == {0 - 1}

\* the registers, memories and bookkeeping after reset
ResetState ==
    /\ fsm = "CHECK"
    /\ intr_bus \in { n \in IdleInputs : ~n.cyc /\ ~n.stb }
    /\ intr_bus_r = [cyc |-> FALSE, stb |-> FALSE, adr |-> 0]
    /\ tag_mem = [l \in Lines |-> TagInit]
    /\ dat_mem = [l \in Lines |-> ConstLine(0)]
    /\ tag_rp_data = [tag |-> 0, dirty |-> FALSE]
    /\ dat_rp_data = ConstLine(0)
    /\ evict_done = [cmd |-> FALSE, w |-> FALSE]
    /\ refill_done = [cmd |-> FALSE, r |-> FALSE]
    /\ dram0 \in Bytes
    /\ dram = [x \in DramAdrs |-> ConstLine(dram0)]
    /\ dram_done = [cmd |-> FALSE, r |-> FALSE, w |-> FALSE]
    /\ dram_cmd = [addr |-> 0, we |-> FALSE]
    /\ dram_data_w = ConstLine(0)
    /\ spec_mem = [a \in Adrs |-> dram[a \div cfg.ratio][Offset(a)]]
    /\ txn = NoTxn
    /\ past_active = FALSE
    /\ held = 0
    /\ nwrites = 0
    /\ cold = TRUE

\* the cache after reset, for the configuration cfg
Reset ==
    /\ missed = NotTracked
    /\ ResetState

Init == cfg \in Configs /\ Reset /\ Others

----------------------------------------------------------------------------
(* One clock cycle in each FSM state *)

\* bookkeeping shared by the three states
Harness(cmd_hs, w_hs, r_hs) ==
    /\ dram_done' = DramDoneNext(cmd_hs, w_hs, r_hs)
    /\ dram_cmd' = IF cmd_hs THEN [addr |-> CmdAddr, we |-> CmdWe] ELSE dram_cmd
    /\ dram_data_w' = IF w_hs THEN WData ELSE dram_data_w
    /\ dram' = DramNext
    /\ spec_mem' = SpecMemNext
    /\ nwrites' = IF Ack /\ intr_bus.we THEN nwrites + 1 ELSE nwrites
    /\ past_active' = Active
    /\ held' = IF Active /\ ~Ack THEN (IF held < 2 THEN held + 1 ELSE 2) ELSE 0
    /\ cold' = (cold /\ ~Ack)
    /\ missed' = IF Miss /\ missed # NotTracked
                  THEN missed \cup {Line(intr_adr)}
                  ELSE missed
    /\ UNCHANGED <<cfg, dram0, burst, ctor, sram, intc>>

CheckCycle ==
    /\ fsm = "CHECK"
    /\ intr_bus' \in NextInputs
    /\ intr_bus_r' = IF Miss
                     THEN [cyc |-> FALSE, stb |-> FALSE, adr |-> intr_adr]
                     ELSE [cyc |-> intr_bus.cyc, stb |-> intr_bus.stb, adr |-> intr_adr]
    /\ tag_rp_data' = IF RpEn THEN tag_mem[RpAddr] ELSE tag_rp_data
    /\ dat_rp_data' = IF RpEn THEN dat_mem[RpAddr] ELSE dat_rp_data
    /\ tag_mem' = IF WpEnCheck
                  THEN [tag_mem EXCEPT ![Line(intr_adr)] =
                            [tag |-> Tag(intr_adr), dirty |-> TRUE]]
                  ELSE tag_mem
    /\ dat_mem' = IF WpEnCheck
                  THEN [dat_mem EXCEPT ![Line(intr_adr)][Offset(intr_adr)] =
                            MergeWord(@, intr_bus.dat_w, intr_bus.sel)]
                  ELSE dat_mem
    /\ fsm' = IF Miss THEN (IF tag_rp_data.dirty THEN "EVICT" ELSE "REFILL") ELSE "CHECK"
    /\ txn' = IF Miss
              THEN [open |-> TRUE, dirty |-> tag_mem[Line(intr_adr)].dirty,
                    addr |-> Cat(Line(intr_adr), tag_mem[Line(intr_adr)].tag),
                    evicts |-> 0, refills |-> 0]
              ELSE IF Ack THEN NoTxn ELSE txn
    /\ UNCHANGED <<evict_done, refill_done>>
    /\ Harness(FALSE, FALSE, FALSE)

\* mutant: EVICT is left as soon as the command was accepted
EvictAllCmdOnly == evict_done.cmd

\* evict_done.all()
EvictAll == evict_done.cmd /\ evict_done.w

\* one EVICT cycle, given the backing store's cmd.ready and w.ready
EvictStep(cmd_ready, w_ready) ==
    LET cmd_hs == CmdValid /\ cmd_ready
        w_hs   == WValid /\ w_ready
        all    == EvictAll
    IN  /\ fsm = "EVICT"
        /\ intr_bus' \in NextInputs
        /\ evict_done' = IF all
                         THEN [cmd |-> FALSE, w |-> FALSE]
                         ELSE [cmd |-> evict_done.cmd \/ cmd_hs,
                               w   |-> evict_done.w \/ w_hs]
        /\ fsm' = IF all THEN "REFILL" ELSE "EVICT"
        /\ txn' = IF cmd_hs /\ CmdWe /\ CmdAddr = txn.addr
                  THEN [txn EXCEPT !.evicts = @ + 1] ELSE txn
        /\ Harness(cmd_hs, w_hs, FALSE)
        /\ UNCHANGED <<intr_bus_r, tag_mem, dat_mem, tag_rp_data, dat_rp_data,
                       refill_done>>

EvictCycle == \E cmd_ready \in BOOLEAN, w_ready \in BOOLEAN : EvictStep(cmd_ready, w_ready)

\* mutant: REFILL is left as soon as the command was accepted
RefillAllCmdOnly == refill_done.cmd

\* mutant: REFILL is left as soon as the read data was taken
RefillAllROnly == refill_done.r

\* refill_done.all()
RefillAll == refill_done.cmd /\ refill_done.r

\* mutant: the refill stores the tag that was read instead of the requested one
RefillTagOld == [tag |-> tag_rp_data.tag, dirty |-> FALSE]

\* mutant: the refilled line is marked dirty
RefillTagDirty == [tag |-> Tag(intr_adr_r), dirty |-> TRUE]

\* tag_wp_data in REFILL
RefillTag == [tag |-> Tag(intr_adr_r), dirty |-> FALSE]

\* dram_port.r.data: the store returns the content of the addressed line
RData == dram[CmdAddr]

\* one REFILL cycle, given the backing store's cmd.ready and r.valid
RefillStep(cmd_ready, r_valid) ==
    LET cmd_hs == CmdValid /\ cmd_ready
        r_hs   == RReady /\ r_valid
        all    == RefillAll
    IN  /\ fsm = "REFILL"
        /\ intr_bus' \in NextInputs
        /\ refill_done' = IF all
                          THEN [cmd |-> FALSE, r |-> FALSE]
                          ELSE [cmd |-> refill_done.cmd \/ cmd_hs,
                                r   |-> refill_done.r \/ r_hs]
        /\ fsm' = IF all THEN "CHECK" ELSE "REFILL"
        /\ tag_mem' = IF r_hs
                      THEN [tag_mem EXCEPT ![Line(intr_adr_r)] = RefillTag]
                      ELSE tag_mem
        /\ dat_mem' = IF r_hs
                      THEN [dat_mem EXCEPT ![Line(intr_adr_r)] = RData]
                      ELSE dat_mem
        /\ txn' = IF r_hs THEN [txn EXCEPT !.refills = @ + 1] ELSE txn
        /\ Harness(cmd_hs, FALSE, r_hs)
        /\ UNCHANGED <<intr_bus_r, tag_rp_data, dat_rp_data, evict_done>>

RefillCycle == \E cmd_ready \in BOOLEAN, r_valid \in BOOLEAN : RefillStep(cmd_ready, r_valid)

Next == CheckCycle \/ EvictCycle \/ RefillCycle

Spec == Init /\ [][Next]_vars

\* The assumption of the formal harness: the store holds zeros at power-up
InitZ == Init /\ dram0 = 0

\* the cache with the history of misses kept
InitFirstMiss == cfg \in Configs /\ ResetState /\ missed = {} /\ Others
SpecFirstMiss == InitFirstMiss /\ [][Next]_vars

SpecZ == InitZ /\ [][Next]_vars

\* The clock ticks, and every handshake the cache offers is eventually answered
Fairness ==
    /\ WF_vars(Next)
    /\ WF_vars(\E w_ready \in BOOLEAN : EvictStep(TRUE, w_ready))
    /\ WF_vars(\E cmd_ready \in BOOLEAN : EvictStep(cmd_ready, TRUE))
    /\ WF_vars(\E r_valid \in BOOLEAN : RefillStep(TRUE, r_valid))
    /\ WF_vars(\E cmd_ready \in BOOLEAN : RefillStep(cmd_ready, TRUE))

\* Liveness is checked on the single-line and two-line shapes with one-byte words
InitLive == Init /\ dram0 = 0 /\ cfg.nsel = 1 /\ cfg.ratio = 1

SpecLive == InitLive /\ [][Next]_vars /\ Fairness

----------------------------------------------------------------------------
(* Burst address generation: intr_adr_next applied beat after beat *)

\* width of the bus address the generator is exercised on
AdrBits == 5

\* beats of a linear burst
MaxLinearBeats == 4

BurstTypesExt == {LINEAR, WRAP_4, WRAP_8, WRAP_16}

\* a cache whose bus address has AdrBits bits: 1 offset bit, 1 line bit, the rest tag
BurstCfg ==
    [ratio |-> 2, nb_lines |-> 2, nsel |-> 1, tags |-> 2 ^ (AdrBits - 2), dirty_init |-> FALSE]

\* a wrapping burst is followed over two rounds of its window
BurstBeats(bte) == IF bte = LINEAR THEN MaxLinearBeats ELSE 2 * WrapSize(bte)

InitBurst ==
    /\ cfg = BurstCfg
    /\ Reset
    /\ burst \in { [start |-> a, bte |-> b, adr |-> a, beats |-> 0, seen |-> {a}] :
                      a \in Adrs, b \in BurstTypesExt }
    /\ ctor = NoCtor /\ sram = NoSram /\ intc = NoIntc

\* one more beat of the burst: the address becomes intr_adr_next
BurstBeat ==
    /\ burst.beats < BurstBeats(burst.bte)
    /\ burst' = [burst EXCEPT !.adr = AdrNext(burst.adr, burst.bte),
                               !.beats = @ + 1,
                               !.seen = @ \cup {AdrNext(burst.adr, burst.bte)}]
    /\ UNCHANGED <<cache_vars, ctor, sram, intc>>

NextBurst == BurstBeat

SpecBurst == InitBurst /\ [][NextBurst]_vars

----------------------------------------------------------------------------
(* WritebackCache.__init__: validation of the construction parameters *)

\* a Python value: an int, or something that is not one ('foo', None)
PyInt(v) == [int |-> TRUE, val |-> v]
NotInt == [int |-> FALSE, val |-> 0]

\* x & y on non-negative integers
RECURSIVE BitAnd(_, _)
BitAnd(x, y) ==
    IF x = 0 \/ y = 0
    THEN 0
    ELSE (x % 2) * (y % 2) + 2 * BitAnd(x \div 2, y \div 2)

\* not isinstance(n, int) or n <= 0 or n & n - 1
NotPositivePow2(n) == ~n.int \/ n.val <= 0 \/ BitAnd(n.val, n.val - 1) # 0

\* log2_int: 0 for 0, the exponent for a power of two
RECURSIVE log2_int(_)
log2_int(n) == IF n <= 1 THEN 0 ELSE 1 + log2_int(n \div 2)

\* the data widths and granularities wishbone.Interface accepts
InterfaceWidths == {8, 16, 32, 64}

\* the dram_port arguments: NativePort(addr_width, data_width), or 'foo'
DramPorts ==
    { [native |-> FALSE, addr_width |-> 0, data_width |-> 0] } \cup
    { [native |-> TRUE, addr_width |-> a, data_width |-> 32] : a \in {10, 23} }

SizeArgs == { NotInt } \cup { PyInt(v) : v \in {0 - 1, 0, 1, 2, 4, 8, 16, 42} }

DataWidthArgs == { NotInt } \cup { PyInt(v) : v \in {0 - 1, 0, 8, 16, 32, 42, 64} }

\* granularity=None is the default
GranularityArgs == { NotInt } \cup { PyInt(v) : v \in {8, 16} }

CtorArgs ==
    [dram_port : DramPorts, size : SizeArgs, data_width : DataWidthArgs,
     granularity : GranularityArgs]

\* the outcome of WritebackCache(dram_port, size=, data_width=, granularity=)
Construct(a) ==
    IF ~a.dram_port.native THEN "TypeError"
    ELSE IF NotPositivePow2(a.size) THEN "ValueError"
    ELSE IF NotPositivePow2(a.data_width) THEN "ValueError"
    ELSE IF a.dram_port.data_width % a.data_width.val # 0 THEN "ValueError"
    ELSE IF a.data_width.val \notin InterfaceWidths THEN "ValueError"
    ELSE IF ~a.granularity.int THEN "TypeError"
    ELSE IF a.granularity.val \notin InterfaceWidths \/ a.granularity.val > a.data_width.val
         THEN "ValueError"
    ELSE "ok"

\* what elaborate derives from an accepted configuration
CacheRatio(a) == a.dram_port.data_width \div a.data_width.val
CacheLines(a) == (a.size.val * a.granularity.val) \div a.dram_port.data_width
BusAdrWidth(a) == a.dram_port.addr_width + log2_int(CacheRatio(a))
TagWidth(a) == BusAdrWidth(a) - log2_int(CacheLines(a)) - log2_int(CacheRatio(a))

InitCtor ==
    /\ cfg \in { c \in Configs : c.ratio = 1 /\ c.nb_lines = 1 /\ c.nsel = 1 /\ ~c.dirty_init }
    /\ Reset
    /\ ctor = NoCtor
    /\ burst = NoBurst /\ sram = NoSram /\ intc = NoIntc

\* one call of the constructor
ConstructCall ==
    /\ ctor.result = "none"
    /\ \E a \in CtorArgs : ctor' = [args |-> a, result |-> Construct(a)]
    /\ UNCHANGED <<cache_vars, burst, sram, intc>>

NextCtor == ConstructCall

SpecCtor == InitCtor /\ [][NextCtor]_vars

----------------------------------------------------------------------------
(* SRAMPeripheral and the burst reader of its test bench, one clock cycle a step *)

\* width of the peripheral's bus address: the memory has 2 ^ SramAdrBits words
SramAdrBits == 5

\* largest number of beats the reader asks for
SramMaxCount == 17

SramDepth == 2 ^ SramAdrBits
SramAdrs == 0..(SramDepth - 1)

\* the memory's initial contents: each word tells its address
SramInits ==
    { [a \in SramAdrs |-> a], [a \in SramAdrs |-> SramDepth - 1 - a] }

\* mutant: the read port ignores the burst and reads the presented address
SramIncrNone(a, bte) == a

\* incr
SramIncr(a, bte) ==
    IF bte = LINEAR
    THEN (a + 1) % SramDepth
    ELSE (((a \div WrapSize(bte)) * WrapSize(bte)) + ((a + 1) % WrapSize(bte))) % SramDepth

\* mem_rp.addr
SramRpAddr ==
    IF sram.cyc /\ sram.stb
    THEN IF sram.cti = INCR_BURST /\ sram.ack
         THEN SramIncr(sram.adr, sram.bte)
         ELSE sram.adr
    ELSE 0

\* read_incr: the address of the next beat
ReaderNext(a, bte) ==
    IF bte = LINEAR
    THEN (a + 1) % SramDepth
    ELSE ((a - (a % WrapSize(bte))) + (((a % WrapSize(bte)) + 1) % WrapSize(bte))) % SramDepth

InitSram ==
    /\ cfg \in { c \in Configs : c.ratio = 1 /\ c.nb_lines = 1 /\ c.nsel = 1 /\ ~c.dirty_init }
    /\ Reset
    /\ sram \in { [on |-> TRUE, mem |-> m, cyc |-> TRUE, stb |-> TRUE, adr |-> a, bte |-> b,
                     cti |-> IF n = 0 THEN END_OF_BURST ELSE INCR_BURST,
                     ack |-> FALSE, dat_r |-> 0,
                     start |-> a, count |-> n, i |-> 0, pc |-> "start"] :
                     m \in SramInits, a \in SramAdrs, b \in BurstTypesExt, n \in 0..SramMaxCount }
    /\ burst = NoBurst /\ ctor = NoCtor /\ intc = NoIntc

\* the peripheral's registers at the clock edge
SramClock(r) ==
    [r EXCEPT !.ack = sram.cyc /\ sram.stb,
              !.dat_r = sram.mem[SramRpAddr]]

\* one clock cycle: the peripheral's registers and the reader's next inputs
SramCycle ==
    /\ sram.on
    /\ sram.pc # "done" \/ sram.ack
    /\ sram' =
        CASE sram.pc = "start" ->
                 IF sram.count = 0
                 THEN SramClock([sram EXCEPT !.cyc = FALSE, !.stb = FALSE, !.pc = "done"])
                 ELSE SramClock([sram EXCEPT !.pc = "loop"])
          [] sram.pc = "loop" ->
                 LET last == sram.i = sram.count - 1
                 IN  SramClock([sram EXCEPT
                         !.adr = ReaderNext(sram.adr, sram.bte),
                         !.cti = IF last THEN END_OF_BURST ELSE INCR_BURST,
                         !.cyc = ~last,
                         !.stb = ~last,
                         !.i = @ + 1,
                         !.pc = IF last THEN "done" ELSE "loop"])
          [] OTHER -> SramClock(sram)
    /\ UNCHANGED <<cache_vars, burst, ctor, intc>>

NextSram == SramCycle

SpecSram == InitSram /\ [][NextSram]_vars

----------------------------------------------------------------------------
(* InterruptController: add_irq and find_index *)

\* three IRQLine objects, and a value that is not an IRQLine
IrqLines == {"line_0", "line_1", "line_2"}
LineArgs == IrqLines \cup {"foo"}

IndexArgs == { NotInt } \cup { PyInt(v) : v \in {0 - 1, 0, 1, 2} }

\* mutant: add_irq without the check that the index is free
AddIrqResultNoIndexCheck(line, index) ==
    IF line \notin IrqLines THEN "TypeError"
    ELSE IF ~index.int \/ index.val < 0 THEN "ValueError"
    ELSE IF line \in intc.irq_lines THEN "ValueError"
    ELSE "ok"

\* add_irq: the exception raised, or ok
AddIrqResult(line, index) ==
    IF line \notin IrqLines THEN "TypeError"
    ELSE IF ~index.int \/ index.val < 0 THEN "ValueError"
    ELSE IF line \in intc.irq_lines THEN "ValueError"
    ELSE IF index.val \in DOMAIN intc.irq_map THEN "ValueError"
    ELSE "ok"

\* __irq_map[index] = line
MapPut(map, index, line) ==
    [i \in (DOMAIN map) \cup {index} |-> IF i = index THEN line ELSE map[i]]

\* find_index: the first index, in sorted order, whose line is the given object
FindIndex(map, line) ==
    IF \E i \in DOMAIN map : map[i] = line
    THEN PyInt(CHOOSE i \in DOMAIN map :
                   /\ map[i] = line
                   /\ \A j \in DOMAIN map : map[j] = line => i <= j)
    ELSE NotInt

InitIntc ==
    /\ cfg \in { c \in Configs : c.ratio = 1 /\ c.nb_lines = 1 /\ c.nsel = 1 /\ ~c.dirty_init }
    /\ Reset
    /\ intc = NoIntc
    /\ burst = NoBurst /\ ctor = NoCtor /\ sram = NoSram

\* intc.add_irq(line, index)
AddIrqCall ==
    /\ \E line \in LineArgs, index \in IndexArgs :
          LET res == AddIrqResult(line, index)
          IN  intc' = IF res = "ok"
                      THEN [irq_lines |-> intc.irq_lines \cup {line},
                            irq_map   |-> MapPut(intc.irq_map, index.val, line),
                            added     |-> intc.added \cup {<<line, index.val>>},
                            call      |-> <<"add_irq", line, index>>,
                            result    |-> res]
                      ELSE [intc EXCEPT !.call = <<"add_irq", line, index>>, !.result = res]
    /\ UNCHANGED <<cache_vars, burst, ctor, sram>>

\* intc.find_index(line)
FindIndexCall ==
    /\ \E line \in IrqLines :
          LET found == FindIndex(intc.irq_map, line)
          IN  intc' = [intc EXCEPT !.call = <<"find_index", line, found>>,
                                   !.result = IF found.int THEN "ok" ELSE "KeyError"]
    /\ UNCHANGED <<cache_vars, burst, ctor, sram>>

NextIntc == AddIrqCall \/ FindIndexCall

SpecIntc == InitIntc /\ [][NextIntc]_vars

----------------------------------------------------------------------------
(* Properties *)

\* the content the reference memory gives to the line at DRAM address x
SpecLine(x) == [o \in Offsets |-> spec_mem[x * cfg.ratio + o]]

\* no DRAM operation is pending on the port
DramIdle == ~dram_done.cmd /\ ~dram_done.r /\ ~dram_done.w

\* C1: every acknowledged access returns in dat_r the value formed by the
\* acknowledged writes to its address (or the store's content if there was none).
C1_ReadAfterWrite == Ack => DatR = spec_mem[intr_adr]

\* C2: a miss on a line whose stored dirty bit is set is served by exactly one
\* write command to {line, old tag} before the refill command is offered; the
\* machine is never in REFILL for such a line without that write.
C2_EvictBeforeRefill == (fsm = "REFILL" /\ txn.dirty) => txn.evicts = 1

\* C3: when a write operation to DRAM address X has completed, the data it
\* transferred is the full current content of line X (all acknowledged bus
\* writes merged in).
C3_WritebackData ==
    (dram_done.cmd /\ dram_done.w) => dram_data_w = SpecLine(dram_cmd.addr)

\* C4: cmd.valid is never asserted while an accepted command's operation is
\* incomplete, w.valid never after the write-data handshake of the pending
\* operation, r.ready never after its read-data handshake.
C4_SingleInFlight ==
    /\ CmdValid => ~dram_done.cmd
    /\ WValid => ~dram_done.w
    /\ RReady => ~dram_done.r

\* a write command was accepted and its data handshake is still outstanding
C4_Witness == fsm = "EVICT" /\ dram_done.cmd /\ ~dram_done.w /\ ~CmdValid /\ WValid

\* C5: an operation is a read or a write, never both: a write command is
\* completed by a write-stream handshake only, a read command by a read-stream
\* handshake only, and cmd.we keeps its value while the operation is pending.
C5_ReadXorWrite ==
    /\ dram_done.cmd => (IF dram_cmd.we THEN ~dram_done.r ELSE ~dram_done.w)
    /\ ~(dram_done.r /\ dram_done.w)
    /\ dram_done.cmd => CmdWe = dram_cmd.we
    /\ dram_done.w => CmdWe
    /\ dram_done.r => ~CmdWe

\* a read operation has completed in a transaction that also evicted
C5_Witness == dram_done.cmd /\ dram_done.r /\ ~dram_cmd.we /\ txn.evicts = 1

\* every clean line holds the store's content of {line, stored tag}
CleanCoherent ==
    \A l \in Lines : ~tag_mem[l].dirty => dat_mem[l] = dram[Cat(l, tag_mem[l].tag)]

\* C6: in every reachable state, the reset state of a cache built with
\* dirty_init=False included, every line whose stored dirty bit is 0 holds the
\* store's current content of {line, stored tag}.
C6_CleanCoherentAlways == CleanCoherent

\* C7: every presented bus request is eventually acknowledged.
C7_EventuallyAck == [](Active => <>Ack)

\* a request is acknowledged after a miss that needed eviction and refill
C7_Witness == Ack /\ txn.open /\ txn.evicts = 1 /\ txn.refills = 1

\* C8: a beat is not acknowledged twice, ack is not asserted in the cycle a
\* request is first presented after an idle cycle, and a first beat that hits
\* is acknowledged exactly one cycle after it was presented.
C8_AckLatency ==
    [][ /\ (Ack /\ Ack') => intr_bus.cti = INCR_BURST
        /\ (Active' /\ ~past_active') => ~Ack'
        /\ (Active /\ ~past_active) =>
               (Ack' <=> tag_mem[Line(intr_adr)].tag = Tag(intr_adr)) ]_vars

\* a first beat is acknowledged one cycle after it was presented
C8_Witness == Ack /\ held = 1

\* C9: ack is asserted only in a cycle where the initiator asserts cyc and stb.
C9_NoSpuriousAck ==
    /\ Ack => (intr_bus.cyc /\ intr_bus.stb)
    /\ (~intr_bus.cyc /\ ~past_active) => ~Ack

\* the registered request is active and the tag matches, but the bus is idle
C9_Witness == fsm = "CHECK" /\ ~intr_bus.cyc /\ ActiveR /\ TagMatch

\* C10: the FSM only moves CHECK->EVICT, CHECK->REFILL, EVICT->REFILL and
\* REFILL->CHECK; for a miss on a dirty line the refill command is offered
\* only once the eviction's write operation has completed, and the retried
\* request is acknowledged only once the refill's read operation has completed.
C10_Ordering ==
    [][ /\ fsm' # fsm => <<fsm, fsm'>> \in { <<"CHECK", "EVICT">>, <<"CHECK", "REFILL">>,
                                            <<"EVICT", "REFILL">>, <<"REFILL", "CHECK">> }
        /\ (fsm' = "REFILL" /\ CmdValid') =>
               /\ ~dram_done'.cmd /\ ~dram_done'.w
               /\ txn'.dirty => txn'.evicts = 1
        /\ (Ack' /\ txn'.open) => (DramIdle' /\ txn'.refills = 1) ]_vars

\* C11: on a cache just out of reset with dirty_init=False, the first read of
\* bus address 0 is acknowledged only after a miss served by REFILL alone: no
\* write command, one read command, one read-stream handshake.
C11_ColdRead ==
    (~cfg.dirty_init /\ cold /\ Ack /\ ~intr_bus.we /\ intr_adr = 0) =>
        (txn.open /\ txn.evicts = 0 /\ txn.refills = 1 /\ ~dram_cmd.we)

\* C12: a write that misses on a line made dirty by an acknowledged write
\* under another tag is acknowledged only after one write-back of the old
\* line to {L, T1} and one fetch of {L, T2}; the acknowledged write leaves the
\* line with tag T2, dirty, holding the fetched data with the written bytes
\* merged in.
C12_WriteAllocate ==
    [][ (~cfg.dirty_init /\ Ack /\ intr_bus.we /\ txn.open /\ txn.dirty) =>
            /\ txn.evicts = 1 /\ txn.refills = 1
            /\ dram[txn.addr] = SpecLine(txn.addr)
            /\ tag_mem'[Line(intr_adr)] = [tag |-> Tag(intr_adr), dirty |-> TRUE]
            /\ dat_mem'[Line(intr_adr)] =
                   [dram[Cat(Line(intr_adr), Tag(intr_adr))] EXCEPT ![Offset(intr_adr)] =
                        MergeWord(@, intr_bus.dat_w, intr_bus.sel)] ]_vars

\* the k addresses of the wrap window of address a
WrapWindow(a, k) == { (a \div k) * k + i : i \in 0..(k - 1) }

\* C13: in wrap-k mode the next address increments the low log2(k) bits
\* modulo k and keeps the bits above, so the first k beats visit k distinct
\* addresses, the whole wrap window, and the k-th application is back at the
\* start; in linear mode the address after i beats is the full address plus i.
C13_BurstAddress ==
    IF burst.bte = LINEAR
    THEN burst.adr = (burst.start + burst.beats) % (2 ^ AdrBits)
    ELSE LET k == WrapSize(burst.bte)
         IN  /\ burst.adr \div k = burst.start \div k
             /\ burst.adr % k = (burst.start + burst.beats) % k
             /\ burst.beats < k => Cardinality(burst.seen) = burst.beats + 1
             /\ burst.beats >= k - 1 => burst.seen = WrapWindow(burst.start, k)
             /\ burst.beats = k => burst.adr = burst.start

\* wrap-4 from address 1 has gone 1, 2, 3, 0 and is back at 1
C13_Witness ==
    /\ burst.bte = WRAP_4 /\ burst.start = 1 /\ burst.beats = 4 /\ burst.adr = 1
    /\ burst.seen = {0, 1, 2, 3}

\* n is an integer that is a positive power of two
IsPositivePow2(n) == n.int /\ \E e \in 0..6 : n.val = 2 ^ e

\* C14: construction fails with TypeError for a DRAM port that is not a
\* NativePort, with ValueError for a size or a data width that is not a
\* positive power of two and for a DRAM data width that is not a multiple of
\* the data width; every construction that succeeds gives a cache with at
\* least one line and a tag field of non-negative width.
C14_Construction ==
    ctor.result # "none" =>
        LET a == ctor.args
        IN  /\ ~a.dram_port.native => ctor.result = "TypeError"
            /\ (a.dram_port.native /\ ~IsPositivePow2(a.size)) => ctor.result = "ValueError"
            /\ (a.dram_port.native /\ IsPositivePow2(a.size) /\ ~IsPositivePow2(a.data_width))
                   => ctor.result = "ValueError"
            /\ (a.dram_port.native /\ IsPositivePow2(a.size) /\ IsPositivePow2(a.data_width)
                   /\ a.dram_port.data_width % a.data_width.val # 0)
                   => ctor.result = "ValueError"
            /\ ctor.result = "ok" => (CacheLines(a) >= 1 /\ TagWidth(a) >= 0)

\* the i-th address of a burst from a: a + i, or the low bits counted modulo k
SeqAdr(a, bte, i) ==
    IF bte = LINEAR
    THEN (a + i) % SramDepth
    ELSE ((a \div WrapSize(bte)) * WrapSize(bte)) + ((a + i) % WrapSize(bte))

\* C15: in a burst read of SRAMPeripheral ack is low in the first cycle and
\* high in every following cycle while cyc and stb are held, and the i-th
\* acknowledged beat returns the memory word at the i-th address of the burst.
C15_SramBurstRead ==
    sram.on =>
        /\ sram.pc = "start" => ~sram.ack
        /\ sram.pc = "loop" =>
               /\ sram.cyc /\ sram.stb /\ sram.ack
               /\ sram.dat_r = sram.mem[SeqAdr(sram.start, sram.bte, sram.i)]

\* the fourth beat of a wrap-4 burst from address 1 returns the word at 0
C15_Witness ==
    /\ sram.on /\ sram.pc = "loop" /\ sram.bte = WRAP_4 /\ sram.start = 1 /\ sram.i = 3
    /\ sram.ack /\ sram.adr = 0 /\ sram.dat_r = sram.mem[0]

\* every line has at most one index and every index at most one line, and the
\* mapping is exactly what the successful add_irq calls put in
IrqOneToOne(c) ==
    /\ \A i, j \in DOMAIN c.irq_map : c.irq_map[i] = c.irq_map[j] => i = j
    /\ c.irq_lines = { c.irq_map[i] : i \in DOMAIN c.irq_map }
    /\ c.added = { <<c.irq_map[i], i>> : i \in DOMAIN c.irq_map }

\* C16: add_irq keeps the mapping one-to-one; a call with an already-mapped
\* line, an already-used index, a non-IRQLine or a negative or non-integer
\* index raises and leaves the mapping unchanged, any other call adds the
\* pair; find_index returns the index a line was added with, KeyError if the
\* line is absent.
C16_AddIrq ==
    [][ /\ IrqOneToOne(intc')
        /\ (intc' # intc /\ intc'.call[1] = "add_irq") =>
               LET line  == intc'.call[2]
                   index == intc'.call[3]
                   bad   == \/ line \notin IrqLines
                            \/ ~index.int \/ index.val < 0
                            \/ \E i \in DOMAIN intc.irq_map : intc.irq_map[i] = line
                            \/ index.val \in DOMAIN intc.irq_map
               IN  IF bad
                   THEN /\ intc'.result \in {"TypeError", "ValueError"}
                        /\ intc'.irq_map = intc.irq_map
                        /\ intc'.irq_lines = intc.irq_lines
                   ELSE /\ intc'.result = "ok"
                        /\ intc'.irq_map[index.val] = line
                        /\ \A i \in DOMAIN intc.irq_map : intc'.irq_map[i] = intc.irq_map[i]
        /\ (intc'.call # <<>> /\ intc'.call[1] = "find_index") =>
               LET line == intc'.call[2]
               IN  /\ intc'.irq_map = intc.irq_map
                   /\ IF \E p \in intc.added : p[1] = line
                      THEN intc'.result = "ok" /\ <<line, intc'.call[3].val>> \in intc.added
                      ELSE intc'.result = "KeyError" ]_vars

\* two lines are mapped and a third add_irq on a used index was refused
C16_Witness ==
    /\ Cardinality(DOMAIN intc.irq_map) = 2
    /\ intc.call # <<>> /\ intc.call[1] = "add_irq"
    /\ intc.call[2] \notin intc.irq_lines /\ intc.call[2] \in IrqLines
    /\ intc.call[3].int /\ intc.call[3].val \in DOMAIN intc.irq_map
    /\ intc.result = "ValueError"

\* C17: in CHECK, when the bus asserts cyc and stb, the registered request is
\* active and the tag differs from the tag read for the line, no ack is given,
\* the registered cyc and stb are cleared and the next state is EVICT if the
\* dirty bit read is set, REFILL otherwise; CHECK is left in no other case.
C17_MissDecision ==
    [][ fsm = "CHECK" =>
            /\ (Active /\ ActiveR /\ Tag(intr_adr) # tag_rp_data.tag) =>
                   /\ ~Ack
                   /\ ~intr_bus_r'.cyc /\ ~intr_bus_r'.stb
                   /\ fsm' = IF tag_rp_data.dirty THEN "EVICT" ELSE "REFILL"
            /\ fsm' # "CHECK" => (Active /\ ActiveR /\ Tag(intr_adr) # tag_rp_data.tag) ]_vars

\* the first cycle of EVICT after a miss whose dirty bit read was set
C17_Witness ==
    /\ fsm = "EVICT" /\ tag_rp_data.dirty /\ ~intr_bus_r.cyc /\ ~intr_bus_r.stb
    /\ ~evict_done.cmd /\ ~evict_done.w /\ txn.open /\ txn.evicts = 0
    /\ Tag(intr_adr) # tag_rp_data.tag

\* C18 as stated: in CHECK with a request on the bus, ack is asserted exactly
\* when the registered request is active and the tag of the registered
\* (previous cycle's) address equals the tag just read, burst beats included.
C18_HitRegisteredTag ==
    (fsm = "CHECK" /\ Active) =>
        (Ack <=> (ActiveR /\ Tag(intr_adr_r) = tag_rp_data.tag))

\* C18 amended: in CHECK, ack is asserted exactly when the bus asserts cyc and
\* stb, the registered request is active and the tag of the address now on
\* the bus equals the tag just read, which is the stored tag of that address's
\* line; for a request held from the previous cycle that address is the
\* registered one.
C18_HitCurrentTag ==
    fsm = "CHECK" =>
        /\ Ack <=> (Active /\ ActiveR /\ Tag(intr_adr) = tag_rp_data.tag)
        /\ (Active /\ ActiveR) => tag_rp_data.tag = tag_mem[Line(intr_adr)].tag
        /\ (Active /\ held > 0) => intr_adr = intr_adr_r

\* a burst beat is acknowledged whose tag differs from the registered address's
C18_Witness == Ack /\ past_active /\ Tag(intr_adr) # Tag(intr_adr_r)

\* C19: each visit to EVICT performs exactly one command handshake and one
\* write-data handshake: EVICT is entered with both completion flags clear, a
\* stream is valid exactly while its flag is clear, an accepted command or
\* data word sets its flag, a set flag stays set until the exit, and the exit
\* to REFILL happens exactly when both flags are set and clears them. The
\* command is a write of {line of the missing address, tag read at the miss}
\* with last = 0, the data is the line as read with every byte enabled, and
\* these values do not change while EVICT lasts.
C19_EvictProtocol ==
    [][ /\ fsm # "EVICT" => ~evict_done.cmd /\ ~evict_done.w
        /\ fsm' = "EVICT" => (fsm = "EVICT" \/ (~evict_done'.cmd /\ ~evict_done'.w))
        /\ fsm = "EVICT" =>
              /\ CmdValid <=> ~evict_done.cmd
              /\ WValid <=> ~evict_done.w
              /\ CmdWe /\ ~CmdLast
              /\ CmdAddr = Cat(Line(intr_adr_r), tag_rp_data.tag)
              /\ Active => intr_adr_r = intr_adr
              /\ WData = dat_rp_data
              /\ WWe = [o \in Offsets |-> Sels]
              /\ (fsm' = "REFILL") <=> (evict_done.cmd /\ evict_done.w)
              /\ fsm' \in {"EVICT", "REFILL"}
              /\ fsm' = "REFILL" => ~evict_done'.cmd /\ ~evict_done'.w
              /\ fsm' = "EVICT" =>
                    /\ evict_done.cmd => evict_done'.cmd
                    /\ evict_done.w => evict_done'.w
                    /\ (~evict_done.cmd /\ evict_done'.cmd) =>
                           dram_cmd' = [addr |-> CmdAddr, we |-> TRUE]
                    /\ (~evict_done.w /\ evict_done'.w) => dram_data_w' = WData
                    /\ CmdAddr' = CmdAddr /\ CmdWe' /\ ~CmdLast'
                    /\ WData' = WData /\ WWe' = WWe ]_vars

\* the write data was taken before the command: EVICT still offers the command
C19_Witness ==
    /\ fsm = "EVICT" /\ evict_done.w /\ ~evict_done.cmd /\ CmdValid /\ ~WValid
    /\ dram_data_w = dat_rp_data

\* C20: each visit to REFILL performs exactly one command handshake and one
\* read-data handshake: REFILL is entered with both completion flags clear,
\* cmd.valid and r.ready are asserted exactly while their flag is clear, a
\* handshake sets its flag, a set flag stays set until the exit, and the exit
\* to CHECK happens exactly when both flags are set and clears them. The
\* command is a read, with last = 1, of the missing bus address without its
\* offset bits.
C20_RefillProtocol ==
    [][ /\ fsm # "REFILL" => ~refill_done.cmd /\ ~refill_done.r
        /\ fsm' = "REFILL" => (fsm = "REFILL" \/ (~refill_done'.cmd /\ ~refill_done'.r))
        /\ fsm = "REFILL" =>
              /\ CmdValid <=> ~refill_done.cmd
              /\ RReady <=> ~refill_done.r
              /\ ~CmdWe /\ CmdLast
              /\ CmdAddr = intr_adr_r \div cfg.ratio
              /\ Active => intr_adr_r = intr_adr
              /\ (fsm' = "CHECK") <=> (refill_done.cmd /\ refill_done.r)
              /\ fsm' \in {"REFILL", "CHECK"}
              /\ fsm' = "CHECK" => ~refill_done'.cmd /\ ~refill_done'.r
              /\ fsm' = "REFILL" =>
                    /\ refill_done.cmd => refill_done'.cmd
                    /\ refill_done.r => refill_done'.r
                    /\ (~refill_done.cmd /\ refill_done'.cmd) =>
                           dram_cmd' = [addr |-> CmdAddr, we |-> FALSE]
                    /\ (~refill_done.r /\ refill_done'.r) =>
                           txn'.refills = txn.refills + 1
                    /\ CmdAddr' = CmdAddr /\ ~CmdWe' /\ CmdLast' ]_vars

\* both handshakes of a refill are done and REFILL is about to return to CHECK
C20_Witness ==
    /\ fsm = "REFILL" /\ refill_done.cmd /\ refill_done.r /\ txn.refills = 1
    /\ dram_cmd = [addr |-> intr_adr_r \div cfg.ratio, we |-> FALSE]

\* C21: in REFILL the read-data handshake never completes before the read
\* command's handshake: the read-data flag is never set while the command is
\* still being offered.
C21_RefillCmdBeforeData == (fsm = "REFILL" /\ refill_done.r) => refill_done.cmd

\* C22: during REFILL the tag and data memories change only in the cycle of
\* the read-data handshake, which sets the whole block of the missing
\* address's line to the fetched line and its tag entry to {tag of the missing
\* address, dirty = 0} and leaves every other line alone; during EVICT no
\* memory changes.
C22_RefillEffect ==
    [][ /\ fsm = "EVICT" => tag_mem' = tag_mem /\ dat_mem' = dat_mem
        /\ fsm = "REFILL" =>
              IF ~refill_done.r /\ refill_done'.r
              THEN /\ tag_mem' = [l \in Lines |->
                                     IF l = Line(intr_adr_r)
                                     THEN [tag |-> Tag(intr_adr_r), dirty |-> FALSE]
                                     ELSE tag_mem[l]]
                   /\ dat_mem' = [l \in Lines |->
                                     IF l = Line(intr_adr_r)
                                     THEN dram[intr_adr_r \div cfg.ratio]
                                     ELSE dat_mem[l]]
                   /\ Active => intr_adr_r = intr_adr
              ELSE tag_mem' = tag_mem /\ dat_mem' = dat_mem ]_vars

\* a refill has replaced a line that held another tag and other data
C22_Witness ==
    /\ fsm = "REFILL" /\ refill_done.r /\ txn.refills = 1
    /\ tag_mem[Line(intr_adr_r)] = [tag |-> Tag(intr_adr_r), dirty |-> FALSE]
    /\ tag_rp_data.tag # Tag(intr_adr_r)
    /\ dat_mem[Line(intr_adr_r)] = dram[intr_adr_r \div cfg.ratio]
    /\ dat_rp_data # dat_mem[Line(intr_adr_r)]

\* C23: once REFILL has returned to CHECK with the request still held, the
\* first CHECK cycle registers the request again without an ack, the second
\* acknowledges it, and CHECK is not left again for that request; a write
\* commits its selected bytes to the refilled line in the ack cycle.
C23_RetryHits ==
    [][ /\ (fsm = "REFILL" /\ fsm' = "CHECK") =>
               (txn'.open /\ txn'.refills = 1 /\ Active' /\ ~ActiveR'
                  /\ intr_bus' = intr_bus /\ intr_adr_r' = intr_adr')
        /\ (fsm = "CHECK" /\ txn.open) =>
              /\ Active /\ txn.refills = 1 /\ fsm' = "CHECK"
              /\ tag_mem[Line(intr_adr)] = [tag |-> Tag(intr_adr), dirty |-> FALSE]
              /\ ~ActiveR => /\ ~Ack
                             /\ ActiveR' /\ intr_adr_r' = intr_adr
                             /\ intr_bus' = intr_bus /\ txn' = txn
              /\ ActiveR =>  /\ Ack
                             /\ ~txn'.open
                             /\ intr_bus.we =>
                                  /\ tag_mem'[Line(intr_adr)] =
                                         [tag |-> Tag(intr_adr), dirty |-> TRUE]
                                  /\ dat_mem'[Line(intr_adr)] =
                                         [dat_mem[Line(intr_adr)] EXCEPT ![Offset(intr_adr)] =
                                              MergeWord(@, intr_bus.dat_w, intr_bus.sel)] ]_vars

\* the second CHECK cycle after a refill: a held write is acknowledged
C23_Witness ==
    /\ fsm = "CHECK" /\ txn.open /\ txn.refills = 1 /\ ActiveR /\ Ack
    /\ intr_bus.we /\ intr_bus.sel # {} /\ held = 2

\* C24: an acknowledged bus write changes, in the data memory, only the bytes
\* selected by sel in the word at the address's offset of the address's line,
\* which take the bytes of dat_w, and sets that line's tag entry to {same tag,
\* dirty = 1}; every other byte, word and line is unchanged, and with an empty
\* sel no data changes while the line is still marked dirty.
C24_PartialWrite ==
    [][ (Ack /\ intr_bus.we) =>
            /\ tag_mem[Line(intr_adr)].tag = Tag(intr_adr)
            /\ tag_mem' = [l \in Lines |->
                              IF l = Line(intr_adr)
                              THEN [tag |-> tag_mem[l].tag, dirty |-> TRUE]
                              ELSE tag_mem[l]]
            /\ dat_mem' = [l \in Lines |-> [o \in Offsets |-> [i \in Sels |->
                              IF l = Line(intr_adr) /\ o = Offset(intr_adr) /\ i \in intr_bus.sel
                              THEN intr_bus.dat_w[i]
                              ELSE dat_mem[l][o][i]]]]
            /\ intr_bus.sel = {} => dat_mem' = dat_mem ]_vars

\* a write of one byte of a two-byte word is acknowledged; the selected byte
\* changes and the unselected byte holds 1
C24_Witness ==
    /\ Ack /\ intr_bus.we /\ cfg.nsel = 2
    /\ \E i \in Sels : /\ intr_bus.sel = {i}
                       /\ intr_bus.dat_w[i] # dat_mem[Line(intr_adr)][Offset(intr_adr)][i]
                       /\ \E j \in Sels \ {i} : dat_mem[Line(intr_adr)][Offset(intr_adr)][j] = 1

\* C25: in CHECK the tag and data memories are written only in a cycle where
\* a write is acknowledged: an acknowledged read and every cycle without ack
\* (idle, first cycle of a request, miss) leave all tags, dirty bits and data
\* unchanged.
C25_ReadsKeepCache ==
    [][ (fsm = "CHECK" /\ ~(Ack /\ intr_bus.we)) =>
            (tag_mem' = tag_mem /\ dat_mem' = dat_mem) ]_vars

\* a read hits a clean line that a refill has filled
C25_Witness ==
    /\ Ack /\ ~intr_bus.we /\ ~cold
    /\ tag_mem[Line(intr_adr)] = [tag |-> Tag(intr_adr), dirty |-> FALSE]
    /\ txn.open /\ txn.refills = 1

\* C26: in a CHECK cycle the enabled read ports fetch the line of the burst's
\* next address when a beat of an incrementing burst is acknowledged, and the
\* line of the current address otherwise. So the beat after an acknowledged
\* burst beat is acknowledged in the next cycle if its line holds its tag,
\* every ack returns the word the cache holds for the beat's own address, and
\* a beat that misses gets no ack before a refill fetched its own address.
C26_BurstPrefetch ==
    [][ fsm = "CHECK" =>
          /\ RpEn =>
                LET a == IF Ack /\ intr_bus.cti = INCR_BURST
                         THEN AdrNext(intr_adr, intr_bus.bte)
                         ELSE intr_adr
                IN  tag_rp_data' = tag_mem[Line(a)] /\ dat_rp_data' = dat_mem[Line(a)]
          /\ ~RpEn => tag_rp_data' = tag_rp_data /\ dat_rp_data' = dat_rp_data
          /\ (Ack /\ intr_bus.cti = INCR_BURST /\ Active'
                /\ tag_mem[Line(intr_adr')].tag = Tag(intr_adr')) => Ack'
          /\ Ack => /\ tag_mem[Line(intr_adr)].tag = Tag(intr_adr)
                    /\ DatR = dat_mem[Line(intr_adr)][Offset(intr_adr)]
          /\ (Active /\ ActiveR /\ tag_mem[Line(intr_adr)].tag # Tag(intr_adr)) => ~Ack
          /\ (Ack /\ txn.open) =>
                /\ txn.refills = 1
                /\ dram_cmd = [addr |-> intr_adr \div cfg.ratio, we |-> FALSE] ]_vars

\* two beats of an incrementing burst on different lines are acknowledged in
\* consecutive cycles
C26_Witness ==
    /\ Ack /\ past_active /\ held = 0 /\ ActiveR
    /\ cfg.nb_lines = 2 /\ Line(intr_adr) # Line(intr_adr_r)
    /\ intr_adr = AdrNext(intr_adr_r, LINEAR)

\* C27: until a request is acknowledged or misses, every line holds its reset
\* entry: {all-ones tag, dirty} with dirty_init, {tag 0, clean} without. The
\* first miss on a line goes to EVICT, for a write to {line, all-ones tag},
\* with dirty_init, and goes directly to REFILL without.
C27_DirtyInit ==
    [][ /\ (cold /\ missed = {}) => \A l \in Lines : tag_mem[l] = TagInit
        /\ (Miss /\ Line(intr_adr) \notin missed) =>
              IF cfg.dirty_init
              THEN /\ fsm' = "EVICT"
                   /\ CmdWe' /\ CmdAddr' = Cat(Line(intr_adr), cfg.tags - 1)
              ELSE fsm' = "REFILL" ]_vars

\* C28: in every CHECK cycle cmd.valid, w.valid and r.ready are deasserted; in
\* every EVICT or REFILL cycle ack is deasserted and the registered request is
\* inactive; so ack never coincides with a backing-store valid or ready.
C28_BusXorStore ==
    /\ fsm = "CHECK" => (~CmdValid /\ ~WValid /\ ~RReady)
    /\ fsm \in {"EVICT", "REFILL"} => (~Ack /\ ~intr_bus_r.cyc /\ ~intr_bus_r.stb)
    /\ Ack => ~(CmdValid \/ WValid \/ RReady)
    /\ (CmdValid \/ WValid \/ RReady) => ~Ack

\* an EVICT cycle with the request held on the bus and both streams offered
C28_Witness ==
    /\ fsm = "EVICT" /\ Active /\ CmdValid /\ WValid /\ ~Ack /\ ~ActiveR
    /\ Tag(intr_adr) # tag_rp_data.tag /\ intr_bus.we

----------------------------------------------------------------------------
(* SRAMPeripheral, writable, with an initiator that writes in single accesses
   and incrementing bursts; one clock cycle a step *)

\* most beats the initiator presents
SramWMaxBeats == 3

\* byte lanes of a word (data_width 16, granularity 8)
SramSels == {0, 1}

SramZeroWord == [i \in SramSels |-> 0]

\* the data of the n-th beat: every byte tells the beat
SramWData(n) == [i \in SramSels |-> n]

\* mem_wp: the bytes enabled by sel take the bytes of dat_w
SramMergeWord(old, new, sel) == [i \in SramSels |-> IF i \in sel THEN new[i] ELSE old[i]]

\* mem_wp.en
SramWpEn == IF sram.cyc /\ sram.stb /\ sram.we THEN sram.sel ELSE {}

\* the memory after the clock edge: mem_wp.addr is mem_rp.addr
SramMemNext ==
    [sram.mem EXCEPT ![SramRpAddr] = SramMergeWord(@, sram.dat_w, SramWpEn)]

SramIdle ==
    [cyc |-> FALSE, stb |-> FALSE, adr |-> 0, we |-> FALSE, sel |-> {},
     dat_w |-> SramZeroWord, cti |-> CLASSIC, bte |-> LINEAR]

\* the addresses a request starts at: before the end of a wrap-4 window and
\* at the last word of the memory
SramWStarts == {3, SramDepth - 1}

\* the cycle types a beat may carry: a burst is closed within the beat budget
SramCtis(n) ==
    IF n < SramWMaxBeats THEN {CLASSIC, INCR_BURST, END_OF_BURST} ELSE {CLASSIC, END_OF_BURST}

\* a new request, as wb_write presents it, or the first beat of a burst
SramRequests ==
    IF sram.beats < SramWMaxBeats
    THEN { [cyc |-> TRUE, stb |-> TRUE, adr |-> a, we |-> TRUE, sel |-> s,
            dat_w |-> SramWData(sram.beats + 1),
            cti |-> c, bte |-> IF c = INCR_BURST THEN b ELSE LINEAR] :
             a \in SramWStarts, s \in SUBSET SramSels,
             c \in SramCtis(sram.beats + 1) \ {END_OF_BURST}, b \in BurstTypesExt }
    ELSE {}

\* the next beat of the burst in progress
SramNextBeats ==
    { [cyc |-> TRUE, stb |-> TRUE, adr |-> ReaderNext(sram.adr, sram.bte), we |-> sram.we,
       sel |-> s, dat_w |-> SramWData(sram.beats + 1),
       cti |-> c, bte |-> sram.bte] :
         s \in SUBSET SramSels, c \in SramCtis(sram.beats + 1) \ {CLASSIC} }

\* what the initiator presents in the next cycle
SramNextInputs ==
    IF sram.cyc /\ sram.stb
    THEN IF ~sram.ack
         THEN { [f \in DOMAIN SramIdle |-> sram[f]] }
         ELSE IF sram.cti = INCR_BURST
              THEN SramNextBeats
              ELSE {SramIdle} \cup SramRequests
    ELSE {SramIdle} \cup SramRequests

InitSramW ==
    /\ cfg \in { c \in Configs : c.ratio = 1 /\ c.nb_lines = 1 /\ c.nsel = 1 /\ ~c.dirty_init }
    /\ Reset
    /\ sram = [on |-> TRUE, mem |-> [a \in SramAdrs |-> SramZeroWord],
               cyc |-> FALSE, stb |-> FALSE, adr |-> 0, we |-> FALSE, sel |-> {},
               dat_w |-> SramZeroWord, cti |-> CLASSIC, bte |-> LINEAR,
               ack |-> FALSE, beats |-> 0]
    /\ burst = NoBurst /\ ctor = NoCtor /\ intc = NoIntc

\* one clock cycle of the writable peripheral
SramWriteCycle ==
    /\ sram.on
    /\ \E n \in SramNextInputs :
          sram' = [on |-> TRUE,
                   mem |-> SramMemNext,
                   cyc |-> n.cyc, stb |-> n.stb, adr |-> n.adr, we |-> n.we, sel |-> n.sel,
                   dat_w |-> n.dat_w, cti |-> n.cti, bte |-> n.bte,
                   ack |-> (sram.cyc /\ sram.stb),
                   beats |-> IF n.cyc /\ n.stb /\ ~(sram.cyc /\ sram.stb /\ ~sram.ack)
                             THEN sram.beats + 1 ELSE sram.beats]
    /\ UNCHANGED <<cache_vars, burst, ctor, intc>>

NextSramW == SramWriteCycle

SpecSramW == InitSramW /\ [][NextSramW]_vars

\* C29: every acknowledged write beat of a writable SRAMPeripheral, single or
\* in an incrementing burst of any type, stores the bytes of its dat_w
\* selected by sel at its own address and changes no other memory word.
C29_SramWriteBeat ==
    [][ (sram.cyc /\ sram.stb /\ sram.we /\ sram.ack) =>
            sram'.mem = [sram.mem EXCEPT
                            ![sram.adr] = SramMergeWord(@, sram.dat_w, sram.sel)] ]_vars

\* C30: the flags of evict_done are 0 in every cycle outside EVICT and those
\* of refill_done in every cycle outside REFILL; a flag rises only in its own
\* state, in a cycle where its stream is offered and the store records the
\* handshake; a state is left with both of its flags set and they are 0 in
\* the next cycle; so EVICT is entered with cmd.valid and w.valid asserted and
\* REFILL with cmd.valid and r.ready asserted.
C30_CompletionFlags ==
    [][ /\ fsm # "EVICT" => evict_done = [cmd |-> FALSE, w |-> FALSE]
        /\ fsm # "REFILL" => refill_done = [cmd |-> FALSE, r |-> FALSE]
        /\ (~evict_done.cmd /\ evict_done'.cmd) =>
              (fsm = "EVICT" /\ CmdValid /\ ~dram_done.cmd /\ dram_done'.cmd)
        /\ (~evict_done.w /\ evict_done'.w) =>
              (fsm = "EVICT" /\ WValid /\ ~dram_done.w /\ dram_done'.w)
        /\ (~refill_done.cmd /\ refill_done'.cmd) =>
              (fsm = "REFILL" /\ CmdValid /\ ~dram_done.cmd /\ dram_done'.cmd)
        /\ (~refill_done.r /\ refill_done'.r) =>
              (fsm = "REFILL" /\ RReady /\ ~dram_done.r /\ dram_done'.r)
        /\ (fsm = "EVICT" /\ fsm' # "EVICT") =>
              /\ evict_done = [cmd |-> TRUE, w |-> TRUE]
              /\ evict_done' = [cmd |-> FALSE, w |-> FALSE]
        /\ (fsm = "REFILL" /\ fsm' # "REFILL") =>
              /\ refill_done = [cmd |-> TRUE, r |-> TRUE]
              /\ refill_done' = [cmd |-> FALSE, r |-> FALSE]
        /\ (fsm # "EVICT" /\ fsm' = "EVICT") => (CmdValid' /\ WValid')
        /\ (fsm # "REFILL" /\ fsm' = "REFILL") => (CmdValid' /\ RReady') ]_vars

\* REFILL has just been entered from EVICT: the eviction is complete, its flags
\* are clear again and the refill offers its command and is ready for data
C30_Witness ==
    /\ fsm = "REFILL" /\ txn.open /\ txn.evicts = 1 /\ txn.refills = 0
    /\ evict_done = [cmd |-> FALSE, w |-> FALSE]
    /\ refill_done = [cmd |-> FALSE, r |-> FALSE]
    /\ CmdValid /\ RReady /\ ~dram_done.cmd

====
